---- MODULE Spec2Model ----
(***************************************************************************)
(* Model of imapnotify-rs (src/main.rs): the Orchestrator (main), the      *)
(* Supervisor (Connection::run), establishment (Connection::new) and the   *)
(* detection loop (Connection::idle_loop), one worker thread per account.  *)
(***************************************************************************)
EXTENDS Integers, Sequences, FiniteSets, TLC

\* ---------------------------------------------------------------- bounds
MaxUid == 2          \* message identifiers returned by a search are 1..MaxUid

\* ------------------------------------------------------ program constants
MaxTries == 5        \* for _try in 0..5
InitialWait == 1     \* let mut wait = 1
WaitFactor == 2      \* wait *= 2

\* ---------------------------------------------- the configured accounts
Config == <<"a1", "a2">>
Accounts == {Config[i] : i \in 1..Len(Config)}
Account == [a1 |-> [boxes |-> <<"INBOX", "Lists">>, on_new_mail_post |-> TRUE],
            a2 |-> [boxes |-> <<"INBOX">>, on_new_mail_post |-> FALSE]]
Uids == 1..MaxUid

VARIABLES
    mainpc,       \* position of main: "connect", "spawn", "join", or an exit
    connections,  \* the Vec of Connections collected by main, as account names
    pc,           \* pc[a]: position of the thread that serves account a
    tries,        \* _try: completed iterations of the current retry loop
    wait,         \* wait: the next delay of the current retry loop, seconds
    log,          \* this retry loop so far: 0 = an attempt, d > 0 = a sleep of d
    res,          \* the last Connection::new of the retry loop: what the
                  \* server did (fault) and what the call returned
    last,         \* the high-water mark, local of idle_loop
    uids,         \* the HashSet uids of the current iteration
    mb,           \* index in account.boxes of the mailbox being examined
    cause,        \* which call made idle_loop return Err
    first,        \* TRUE during the first iteration of an idle_loop call
    last0,        \* high-water mark at the start of the current iteration
    seen,         \* the unioned identifier set the iteration decided on
    fired,        \* times the Notifier was fired in the current iteration
    launched,     \* command launches attempted in the current iteration
    scoped,       \* how crossbeam::scope ended in the current iteration
    logouts,      \* outcomes of the log-outs made since idle_loop returned Err
    notified      \* largest identifier of the events this idle_loop call fired
                  \* the Notifier for

vars == <<mainpc, connections, pc, tries, wait, log, res, last, uids,
          mb, cause, first, last0, seen, fired, launched, scoped, logouts, notified>>

mainVars == <<mainpc, connections>>
retryVars == <<tries, wait, log, res>>
iterVars == <<uids, mb, last0, seen, fired, launched, scoped>>
histVars == <<logouts, notified>>

NoRes == [fault |-> "none", ok |-> TRUE, err |-> "none", steps |-> <<>>]

\* ------------------------------------------------------- pure functions
\* Connection::new against a server at which step f goes wrong ("none":
\* nothing does).  steps are the session calls made, in order.
NewFaults == {"none", "connect", "login", "capabilities", "noidle", "examine"}

\* faulty variant: the IDLE capability is not required
ConnectionNewNoIdleCheck(f) ==
    IF f = "connect" THEN [ok |-> FALSE, err |-> f, steps |-> <<"connect">>]
    ELSE IF f = "login" THEN [ok |-> FALSE, err |-> f, steps |-> <<"connect", "login">>]
    ELSE IF f = "capabilities"
         THEN [ok |-> FALSE, err |-> f, steps |-> <<"connect", "login", "capabilities">>]
    ELSE IF f = "examine"
         THEN [ok |-> FALSE, err |-> f,
               steps |-> <<"connect", "login", "capabilities", "examine">>]
    ELSE [ok |-> TRUE, err |-> "none",
          steps |-> <<"connect", "login", "capabilities", "examine">>]

ConnectionNew(f) ==
    IF f = "connect" THEN [ok |-> FALSE, err |-> f, steps |-> <<"connect">>]
    ELSE IF f = "login" THEN [ok |-> FALSE, err |-> f, steps |-> <<"connect", "login">>]
    ELSE IF f = "capabilities"
         THEN [ok |-> FALSE, err |-> f, steps |-> <<"connect", "login", "capabilities">>]
    ELSE IF f = "noidle"
         THEN [ok |-> FALSE, err |-> f, steps |-> <<"connect", "login", "capabilities">>]
    ELSE IF f = "examine"
         THEN [ok |-> FALSE, err |-> f,
               steps |-> <<"connect", "login", "capabilities", "examine">>]
    ELSE [ok |-> TRUE, err |-> "none",
          steps |-> <<"connect", "login", "capabilities", "examine">>]

Called(f, r) == [fault |-> f, ok |-> r.ok, err |-> r.err, steps |-> r.steps]

Max(x, y) == IF x >= y THEN x ELSE y

\* uids.iter().cloned().max().unwrap_or(0)
MaxOrZero(S) == IF S = {} THEN 0 ELSE CHOOSE m \in S : \A u \in S : u <= m

\* uids.iter().all(|&uid| uid > last); faulty variants: any for all, >= for >
AllGreaterAny(S, l) == \E uid \in S : uid > l
AllGreaterOrEqual(S, l) == \A uid \in S : uid >= l
AllGreater(S, l) == \A uid \in S : uid > l

\* last = max(last, max of uids or 0)
\* faulty variant: the mark is overwritten by the greatest id of the set
NewLastOverwrite(l, S) == MaxOrZero(S)

NewLast(l, S) == Max(l, MaxOrZero(S))

\* the retry loops run while _try is in 0..5; faulty variant: one pass more
MoreTriesSix(t) == t < MaxTries + 1
MoreTries(t) == t < MaxTries

\* wait *= 2; faulty variant: the delay is never doubled
NextWaitSame(w) == w
NextWait(w) == w * WaitFactor

\* The Notifier: the closure run by the thread spawned in the scope.  p, q:
\* whether the launch of the primary command, of the post-command, succeeds;
\* post: whether a post-command is configured.  The launches made, in order.
\* Faulty variant: the post-command is launched whether or not the primary
\* command could be launched.
LaunchesAlways(p, q, post) ==
    IF post THEN <<[cmd |-> "primary", ok |-> p], [cmd |-> "post", ok |-> q]>>
    ELSE <<[cmd |-> "primary", ok |-> p]>>

Launches(p, q, post) ==
    IF ~p THEN <<[cmd |-> "primary", ok |-> FALSE]>>
    ELSE IF post THEN <<[cmd |-> "primary", ok |-> TRUE], [cmd |-> "post", ok |-> q]>>
    ELSE <<[cmd |-> "primary", ok |-> TRUE]>>

LaunchFailed(l) == \E i \in 1..Len(l) : ~l[i].ok

\* What a failed launch hands to idle_loop: the closure only logs it.
\* Faulty variant: the error is returned.
LaunchErrorPropagated(l) == IF LaunchFailed(l) THEN "launch" ELSE "none"
LaunchError(l) == "none"

\* The scope returns Err when the thread it spawned panicked; the closure can
\* panic only after a failed launch, where it formats and prints the error.
ScopeResults(l) == IF LaunchFailed(l) THEN {"ok", "err"} ELSE {"ok"}

\* if let Err(any) = scope { ... Err(any) => bail!(...) }: what a scope that
\* returned Err does to the worker: idle_loop returns Err ("return"), or the
\* panic goes on unwinding the worker ("unwind"), which is the faulty variant.
OnScopeErrUnwind == "unwind"
OnScopeErr == "return"

\* ---------------------------------------------------------------- Init
Init ==
    /\ mainpc = "connect"
    /\ connections = <<>>
    /\ pc = [a \in Accounts |-> "i_new"]
    /\ tries = [a \in Accounts |-> 0]
    /\ wait = [a \in Accounts |-> InitialWait]
    /\ log = [a \in Accounts |-> <<>>]
    /\ res = [a \in Accounts |-> NoRes]
    /\ last = [a \in Accounts |-> 0]
    /\ uids = [a \in Accounts |-> {}]
    /\ mb = [a \in Accounts |-> 1]
    /\ cause = [a \in Accounts |-> "none"]
    /\ first = [a \in Accounts |-> FALSE]
    /\ last0 = [a \in Accounts |-> 0]
    /\ seen = [a \in Accounts |-> {}]
    /\ fired = [a \in Accounts |-> 0]
    /\ launched = [a \in Accounts |-> <<>>]
    /\ scoped = [a \in Accounts |-> "none"]
    /\ logouts = [a \in Accounts |-> <<>>]
    /\ notified = [a \in Accounts |-> 0]

\* ------------------------------------------- main: initial establishment
\* One pass of the retry loop in the par_iter closure up to the sleep.
InitAttempt(a) ==
    /\ mainpc = "connect"
    /\ pc[a] = "i_new"
    /\ \E f \in NewFaults :
         LET r == ConnectionNew(f) IN
         /\ log' = [log EXCEPT ![a] = Append(@, 0)]
         /\ res' = [res EXCEPT ![a] = Called(f, r)]
         /\ pc' = [pc EXCEPT ![a] = IF r.ok THEN "i_some" ELSE "i_sleep"]
    /\ UNCHANGED <<mainVars, tries, wait, last, cause, first, iterVars, histVars>>

\* thread::sleep(wait); wait *= 2; and the loop's next _try or its end.
InitSleep(a) ==
    /\ mainpc = "connect"
    /\ pc[a] = "i_sleep"
    /\ log' = [log EXCEPT ![a] = Append(@, wait[a])]
    /\ wait' = [wait EXCEPT ![a] = NextWait(@)]
    /\ tries' = [tries EXCEPT ![a] = @ + 1]
    /\ res' = [res EXCEPT ![a] = NoRes]
    /\ pc' = [pc EXCEPT ![a] = IF MoreTries(tries[a] + 1) THEN "i_new" ELSE "i_none"]
    /\ UNCHANGED <<mainVars, last, cause, first, iterVars, histVars>>

\* collect(); if connections.is_empty() { bail!(...) }
\* Faulty variant: main bails as soon as one account is missing.
MainCollectAnyMissing ==
    /\ mainpc = "connect"
    /\ \A a \in Accounts : pc[a] \in {"i_some", "i_none"}
    /\ connections' = SelectSeq(Config, LAMBDA a : pc[a] = "i_some")
    /\ mainpc' = IF \E a \in Accounts : pc[a] = "i_none" THEN "exit_noconn" ELSE "spawn"
    /\ UNCHANGED <<pc, retryVars, last, cause, first, iterVars, histVars>>

\* faulty variant: workers are spawned as soon as one account has connected
MainCollectEager ==
    /\ mainpc = "connect"
    /\ \E a \in Accounts : pc[a] = "i_some"
    /\ connections' = SelectSeq(Config, LAMBDA a : pc[a] = "i_some")
    /\ mainpc' = "spawn"
    /\ UNCHANGED <<pc, retryVars, last, cause, first, iterVars, histVars>>

MainCollect ==
    /\ mainpc = "connect"
    /\ \A a \in Accounts : pc[a] \in {"i_some", "i_none"}
    /\ connections' = SelectSeq(Config, LAMBDA a : pc[a] = "i_some")
    /\ mainpc' = IF connections' = <<>> THEN "exit_noconn" ELSE "spawn"
    /\ UNCHANGED <<pc, retryVars, last, cause, first, iterVars, histVars>>

\* for mut connection in connections { s.spawn(move |_| connection.run()) }
MainSpawn ==
    /\ mainpc = "spawn"
    /\ pc' = [a \in Accounts |->
                IF \E i \in 1..Len(connections) : connections[i] = a
                THEN "run" ELSE pc[a]]
    /\ connections' = <<>>
    /\ mainpc' = "join"
    /\ UNCHANGED <<retryVars, last, cause, first, iterVars, histVars>>

\* The scope joins every worker; a panicked one makes it Err and main bails.
Ended(a) == pc[a] \in {"i_none", "dead", "panicked"}

\* faulty variant: main goes on when the first worker has ended
MainJoinFirstEnded ==
    /\ mainpc = "join"
    /\ \E a \in Accounts : pc[a] \in {"dead", "panicked"}
    /\ mainpc' = IF \E a \in Accounts : pc[a] = "panicked" THEN "exit_thread" ELSE "exit_ok"
    /\ UNCHANGED <<connections, pc, retryVars, last, cause, first, iterVars, histVars>>

MainJoin ==
    /\ mainpc = "join"
    /\ \A a \in Accounts : Ended(a)
    /\ mainpc' = IF \E a \in Accounts : pc[a] = "panicked" THEN "exit_thread" ELSE "exit_ok"
    /\ UNCHANGED <<connections, pc, retryVars, last, cause, first, iterVars, histVars>>

\* ----------------------------------------------------- the detection loop
\* A worker thread runs only while the process lives.
Alive == mainpc = "join"

\* let mut last = 0; and the first pass of loop { let mut uids = HashSet::new()
\* The locals of the retry loop that produced this Connection are dead here.
\* Faulty variant: the mark is kept across calls, as a field would be.
IdleLoopEnterKeepLast(a) ==
    /\ Alive
    /\ pc[a] = "run"
    /\ pc' = [pc EXCEPT ![a] = "scan"]
    /\ first' = [first EXCEPT ![a] = TRUE]
    /\ last0' = [last0 EXCEPT ![a] = last[a]]
    /\ uids' = [uids EXCEPT ![a] = {}]
    /\ mb' = [mb EXCEPT ![a] = 1]
    /\ tries' = [tries EXCEPT ![a] = 0]
    /\ wait' = [wait EXCEPT ![a] = InitialWait]
    /\ log' = [log EXCEPT ![a] = <<>>]
    /\ res' = [res EXCEPT ![a] = NoRes]
    /\ notified' = [notified EXCEPT ![a] = 0]
    /\ UNCHANGED <<mainVars, cause, seen, fired, launched, scoped, last, logouts>>

\* faulty variant: the mark is one value shared by all workers
IdleLoopEnterSharedMark(a) ==
    /\ Alive
    /\ pc[a] = "run"
    /\ pc' = [pc EXCEPT ![a] = "scan"]
    /\ last' = [b \in Accounts |-> 0]
    /\ first' = [first EXCEPT ![a] = TRUE]
    /\ last0' = [last0 EXCEPT ![a] = 0]
    /\ uids' = [uids EXCEPT ![a] = {}]
    /\ mb' = [mb EXCEPT ![a] = 1]
    /\ tries' = [tries EXCEPT ![a] = 0]
    /\ wait' = [wait EXCEPT ![a] = InitialWait]
    /\ log' = [log EXCEPT ![a] = <<>>]
    /\ res' = [res EXCEPT ![a] = NoRes]
    /\ notified' = [notified EXCEPT ![a] = 0]
    /\ UNCHANGED <<mainVars, cause, seen, fired, launched, scoped, logouts>>

IdleLoopEnter(a) ==
    /\ Alive
    /\ pc[a] = "run"
    /\ pc' = [pc EXCEPT ![a] = "scan"]
    /\ last' = [last EXCEPT ![a] = 0]
    /\ first' = [first EXCEPT ![a] = TRUE]
    /\ last0' = [last0 EXCEPT ![a] = 0]
    /\ uids' = [uids EXCEPT ![a] = {}]
    /\ mb' = [mb EXCEPT ![a] = 1]
    /\ tries' = [tries EXCEPT ![a] = 0]
    /\ wait' = [wait EXCEPT ![a] = InitialWait]
    /\ log' = [log EXCEPT ![a] = <<>>]
    /\ res' = [res EXCEPT ![a] = NoRes]
    /\ notified' = [notified EXCEPT ![a] = 0]
    /\ UNCHANGED <<mainVars, cause, seen, fired, launched, scoped, logouts>>

\* The ? of a failed session call: idle_loop returns Err to run.
\* faulty variant: the failed operation is tried again by the loop itself
LoopFailsRetried(a, c) ==
    /\ pc' = [pc EXCEPT ![a] = "scan"]
    /\ cause' = [cause EXCEPT ![a] = c]

LoopFails(a, c) ==
    /\ pc' = [pc EXCEPT ![a] = "logout"]
    /\ cause' = [cause EXCEPT ![a] = c]

\* One pass of for mbox in &*self.account.boxes:
\* self.session.examine(mbox)?; let search = self.session.uid_search(..)?;
\* uids.extend(search);
Scan(a) ==
    /\ Alive
    /\ pc[a] = "scan"
    /\ \E o \in {"examine", "search", "ok"}, search \in SUBSET Uids :
         IF o = "ok"
         THEN /\ uids' = [uids EXCEPT ![a] = @ \cup search]
              /\ IF mb[a] < Len(Account[a].boxes)
                 THEN /\ mb' = [mb EXCEPT ![a] = @ + 1]
                      /\ pc' = pc
                 ELSE /\ mb' = mb
                      /\ pc' = [pc EXCEPT ![a] = "decide"]
              /\ cause' = cause
         ELSE /\ search = {}
              /\ LoopFails(a, o)
              /\ UNCHANGED <<uids, mb>>
    /\ UNCHANGED <<mainVars, retryVars, last, first, last0, seen, fired, launched, scoped, histVars>>

\* if uids.iter().all(|&uid| uid > last) { scope } else { uids.clear() }
\* last = max(last, ...).  s.spawn panics if no thread can be created, and
\* the scope resumes that unwinding in the worker; otherwise the scope joins
\* the spawned thread.
React(a) ==
    /\ Alive
    /\ pc[a] = "decide"
    /\ seen' = [seen EXCEPT ![a] = uids[a]]
    /\ IF AllGreater(uids[a], last[a])
       THEN /\ fired' = [fired EXCEPT ![a] = @ + 1]
            /\ notified' = [notified EXCEPT ![a] = Max(@, MaxOrZero(uids[a]))]
            /\ uids' = uids
            /\ \E spawned, p, q \in BOOLEAN :
                 LET l == Launches(p, q, Account[a].on_new_mail_post) IN
                 IF ~spawned
                 THEN /\ p /\ q
                      /\ scoped' = [scoped EXCEPT ![a] = "panic"]
                      /\ pc' = [pc EXCEPT ![a] = "panicked"]
                      /\ UNCHANGED <<launched, last, cause>>
                 ELSE /\ (~p \/ ~Account[a].on_new_mail_post) => q
                      /\ launched' = [launched EXCEPT ![a] = l]
                      /\ \E r \in ScopeResults(l) :
                           /\ scoped' = [scoped EXCEPT ![a] = r]
                           /\ IF LaunchError(l) # "none"
                              THEN LoopFails(a, LaunchError(l)) /\ last' = last
                              ELSE IF r = "err" /\ OnScopeErr = "return"
                              THEN LoopFails(a, "scope") /\ last' = last
                              ELSE IF r = "err"
                              THEN /\ pc' = [pc EXCEPT ![a] = "panicked"]
                                   /\ UNCHANGED <<last, cause>>
                              ELSE /\ last' = [last EXCEPT ![a] = NewLast(@, uids[a])]
                                   /\ pc' = [pc EXCEPT ![a] = "idle"]
                                   /\ cause' = cause
       ELSE /\ uids' = [uids EXCEPT ![a] = {}]
            /\ last' = [last EXCEPT ![a] = NewLast(@, {})]
            /\ pc' = [pc EXCEPT ![a] = "idle"]
            /\ UNCHANGED <<fired, launched, scoped, cause, notified>>
    /\ UNCHANGED <<mainVars, retryVars, first, mb, last0, logouts>>

\* self.session.idle()?.wait_keepalive()?; and the next pass of the loop
IdleWait(a) ==
    /\ Alive
    /\ pc[a] = "idle"
    /\ \E ok \in BOOLEAN :
         IF ok
         THEN /\ pc' = [pc EXCEPT ![a] = "scan"]
              /\ first' = [first EXCEPT ![a] = FALSE]
              /\ last0' = [last0 EXCEPT ![a] = last[a]]
              /\ uids' = [uids EXCEPT ![a] = {}]
              /\ mb' = [mb EXCEPT ![a] = 1]
              /\ seen' = [seen EXCEPT ![a] = {}]
              /\ fired' = [fired EXCEPT ![a] = 0]
              /\ launched' = [launched EXCEPT ![a] = <<>>]
              /\ scoped' = [scoped EXCEPT ![a] = "none"]
              /\ cause' = cause
         ELSE /\ LoopFails(a, "idle")
              /\ UNCHANGED <<first, iterVars>>
    /\ UNCHANGED <<mainVars, retryVars, last, histVars>>

\* ------------------------------------------------- run: the Supervisor
\* eprintln!(...); let _ = self.session.logout(); break; let mut wait = 1;
\* faulty variant: self.session.logout()? -- a failed log-out ends the worker
LogoutChecked(a) ==
    /\ Alive
    /\ pc[a] = "logout"
    /\ \E ok \in BOOLEAN :
         /\ pc' = [pc EXCEPT ![a] = IF ok THEN "r_new" ELSE "dead"]
         /\ cause' = [cause EXCEPT ![a] = "none"]
         /\ first' = [first EXCEPT ![a] = FALSE]
         /\ last0' = [last0 EXCEPT ![a] = 0]
         /\ uids' = [uids EXCEPT ![a] = {}]
         /\ mb' = [mb EXCEPT ![a] = 1]
         /\ seen' = [seen EXCEPT ![a] = {}]
         /\ fired' = [fired EXCEPT ![a] = 0]
         /\ launched' = [launched EXCEPT ![a] = <<>>]
         /\ scoped' = [scoped EXCEPT ![a] = "none"]
         /\ tries' = [tries EXCEPT ![a] = 0]
         /\ wait' = [wait EXCEPT ![a] = InitialWait]
         /\ log' = [log EXCEPT ![a] = <<>>]
         /\ logouts' = [logouts EXCEPT ![a] = Append(@, ok)]
         /\ notified' = [notified EXCEPT ![a] = 0]
    /\ UNCHANGED <<mainVars, res, last>>

\* faulty variant: the log-out uses up the first attempt of the episode
LogoutShortBudget(a) ==
    /\ Alive
    /\ pc[a] = "logout"
    /\ \E ok \in BOOLEAN :
         /\ pc' = [pc EXCEPT ![a] = "r_new"]
         /\ cause' = [cause EXCEPT ![a] = "none"]
         /\ first' = [first EXCEPT ![a] = FALSE]
         /\ last0' = [last0 EXCEPT ![a] = 0]
         /\ uids' = [uids EXCEPT ![a] = {}]
         /\ mb' = [mb EXCEPT ![a] = 1]
         /\ seen' = [seen EXCEPT ![a] = {}]
         /\ fired' = [fired EXCEPT ![a] = 0]
         /\ launched' = [launched EXCEPT ![a] = <<>>]
         /\ scoped' = [scoped EXCEPT ![a] = "none"]
         /\ tries' = [tries EXCEPT ![a] = 1]
         /\ wait' = [wait EXCEPT ![a] = NextWait(InitialWait)]
         /\ log' = [log EXCEPT ![a] = <<>>]
         /\ logouts' = [logouts EXCEPT ![a] = Append(@, ok)]
         /\ notified' = [notified EXCEPT ![a] = 0]
    /\ UNCHANGED <<mainVars, res, last>>

Logout(a) ==
    /\ Alive
    /\ pc[a] = "logout"
    /\ \E ok \in BOOLEAN :
         /\ pc' = [pc EXCEPT ![a] = "r_new"]
         /\ cause' = [cause EXCEPT ![a] = "none"]
         /\ first' = [first EXCEPT ![a] = FALSE]
         /\ last0' = [last0 EXCEPT ![a] = 0]
         /\ uids' = [uids EXCEPT ![a] = {}]
         /\ mb' = [mb EXCEPT ![a] = 1]
         /\ seen' = [seen EXCEPT ![a] = {}]
         /\ fired' = [fired EXCEPT ![a] = 0]
         /\ launched' = [launched EXCEPT ![a] = <<>>]
         /\ scoped' = [scoped EXCEPT ![a] = "none"]
         /\ tries' = [tries EXCEPT ![a] = 0]
         /\ wait' = [wait EXCEPT ![a] = InitialWait]
         /\ log' = [log EXCEPT ![a] = <<>>]
         /\ logouts' = [logouts EXCEPT ![a] = Append(@, ok)]
         /\ notified' = [notified EXCEPT ![a] = 0]
    /\ UNCHANGED <<mainVars, res, last>>

\* match Connection::new(self.account) { Ok(mut c) => return c.run(), Err ...
ReAttempt(a) ==
    /\ Alive
    /\ pc[a] = "r_new"
    /\ \E f \in NewFaults :
         LET r == ConnectionNew(f) IN
         /\ log' = [log EXCEPT ![a] = Append(@, 0)]
         /\ res' = [res EXCEPT ![a] = Called(f, r)]
         /\ pc' = [pc EXCEPT ![a] = IF r.ok THEN "run" ELSE "r_sleep"]
    /\ logouts' = [logouts EXCEPT ![a] = <<>>]
    /\ UNCHANGED <<mainVars, tries, wait, last, cause, first, iterVars, notified>>

\* thread::sleep(wait); wait *= 2; and the loop's next _try, or run returns.
ReSleep(a) ==
    /\ Alive
    /\ pc[a] = "r_sleep"
    /\ log' = [log EXCEPT ![a] = Append(@, wait[a])]
    /\ wait' = [wait EXCEPT ![a] = NextWait(@)]
    /\ tries' = [tries EXCEPT ![a] = @ + 1]
    /\ res' = [res EXCEPT ![a] = NoRes]
    /\ pc' = [pc EXCEPT ![a] = IF MoreTries(tries[a] + 1) THEN "r_new" ELSE "dead"]
    /\ UNCHANGED <<mainVars, last, cause, first, iterVars, histVars>>

Next ==
    \/ MainCollect
    \/ MainSpawn
    \/ MainJoin
    \/ \E a \in Accounts :
         \/ InitAttempt(a)
         \/ InitSleep(a)
         \/ IdleLoopEnter(a)
         \/ Scan(a)
         \/ React(a)
         \/ IdleWait(a)
         \/ Logout(a)
         \/ ReAttempt(a)
         \/ ReSleep(a)

Spec == Init /\ [][Next]_vars

\* The steps of the thread that serves account a.
Worker(a) ==
    \/ InitAttempt(a)
    \/ InitSleep(a)
    \/ IdleLoopEnter(a)
    \/ Scan(a)
    \/ React(a)
    \/ IdleWait(a)
    \/ Logout(a)
    \/ ReAttempt(a)
    \/ ReSleep(a)

\* Every thread that can take a step is scheduled in the end.
FairSpec ==
    /\ Spec
    /\ WF_vars(MainCollect)
    /\ WF_vars(MainSpawn)
    /\ WF_vars(MainJoin)
    /\ \A a \in Accounts : WF_vars(Worker(a))

\* ------------------------------------------------------------ vocabulary
\* The current iteration of a's detection loop ran through to its push-wait.
Completed(a) == pc[a] = "idle" \/ (pc[a] = "logout" /\ cause[a] = "idle")

\* The current iteration of a's detection loop has taken its decision.
Decided(a) ==
    \/ Completed(a)
    \/ pc[a] = "logout" /\ cause[a] = "scope"
    \/ pc[a] = "panicked"

Greatest(S) == CHOOSE m \in S : \A u \in S : u <= m

\* Attempts and delays of a retry loop, read off its log.
NumAttempts(l) == Cardinality({i \in 1..Len(l) : l[i] = 0})
AttemptPos(l, k) ==
    CHOOSE i \in 1..Len(l) : l[i] = 0 /\ Cardinality({j \in 1..i : l[j] = 0}) = k
DelayBefore(l, k) ==
    LET i == AttemptPos(l, k) IN IF i > 1 /\ l[i - 1] > 0 THEN l[i - 1] ELSE 0
Exhausted == <<0, 1, 0, 2, 0, 4, 0, 8, 0, 16>>
IsPrefix(l, m) == Len(l) <= Len(m) /\ \A i \in 1..Len(l) : l[i] = m[i]

\* ---------------------------------------------------------------- claims
\* C1: in an iteration whose unioned set U is empty or wholly above the
\* high-water mark L, the Notifier is fired exactly once, and where the
\* iteration runs through to its push-wait the mark is then max(L, max U)
\* (L when U is empty).
C1_FreshSetFiresOnce ==
    \A a \in Accounts :
        (Decided(a) /\ (seen[a] = {} \/ \A u \in seen[a] : u > last0[a])) =>
            /\ fired[a] = 1
            /\ Completed(a) =>
                 last[a] = IF seen[a] = {} THEN last0[a]
                           ELSE IF Greatest(seen[a]) > last0[a]
                                THEN Greatest(seen[a]) ELSE last0[a]

C1_Witness ==
    \E a \in Accounts :
        /\ pc[a] = "idle" /\ ~first[a]
        /\ last0[a] = 1 /\ seen[a] = {2} /\ fired[a] = 1 /\ last[a] = 2

\* C2: in an iteration whose unioned set U holds an identifier <= L, the
\* Notifier is not fired, U is discarded and the mark stays exactly L, also
\* when U holds identifiers above L.
C2_StaleSetDiscarded ==
    \A a \in Accounts :
        (Decided(a) /\ \E u \in seen[a] : u <= last0[a]) =>
            /\ fired[a] = 0
            /\ launched[a] = <<>>
            /\ uids[a] = {}
            /\ last[a] = last0[a]

C2_Witness ==
    \E a \in Accounts :
        /\ pc[a] = "idle"
        /\ last0[a] = 1 /\ seen[a] = {1, 2} /\ fired[a] = 0 /\ last[a] = 1

\* C3 as stated: establishment attempt k, k = 1..5, is preceded by a delay of
\* 2^(k-1) seconds.
C3_DelayPrecedesAttempt ==
    \A a \in Accounts :
        \A k \in 1..NumAttempts(log[a]) : DelayBefore(log[a], k) = 2 ^ (k - 1)

\* C3 amended: a retry loop makes its first attempt without delay; the delay
\* 2^(k-1) seconds follows the failure of attempt k, so attempt k >= 2 is
\* preceded by 2^(k-2) seconds, and the 16 seconds after the failed fifth
\* attempt are followed by no attempt.
C3_DelayFollowsFailure ==
    \A a \in Accounts :
        /\ IsPrefix(log[a], Exhausted)
        /\ \A k \in 1..NumAttempts(log[a]) :
             DelayBefore(log[a], k) = IF k = 1 THEN 0 ELSE 2 ^ (k - 2)
        /\ pc[a] \in {"dead", "i_none"} => log[a] = Exhausted
        /\ pc[a] \in {"i_sleep", "r_sleep"} =>
             wait[a] = 2 ^ (NumAttempts(log[a]) - 1)

C3_Witness ==
    \E a \in Accounts : pc[a] = "dead" /\ log[a] = <<0, 1, 0, 2, 0, 4, 0, 8, 0, 16>>

\* C4: after a detection-loop failure at most 5 re-establishment attempts are
\* made; a worker is Dead only after 5 failed ones; Dead is terminal (no
\* attempt, no detection iteration, no Notifier from then on); and the
\* process does not end in a thread error unless some worker panicked.
C4_DeadIsTerminal ==
    /\ [](\A a \in Accounts :
            /\ NumAttempts(log[a]) <= 5
            /\ pc[a] = "dead" => (log[a] = Exhausted /\ tries[a] = 5)
            /\ mainpc = "exit_thread" => \E b \in Accounts : pc[b] = "panicked")
    /\ [][\A a \in Accounts :
            pc[a] = "dead" =>
                /\ pc'[a] = "dead"
                /\ log'[a] = log[a] /\ tries'[a] = tries[a] /\ res'[a] = res[a]
                /\ fired'[a] = fired[a] /\ launched'[a] = launched[a]
                /\ uids'[a] = uids[a] /\ seen'[a] = seen[a] /\ mb'[a] = mb[a]
                /\ last'[a] = last[a]]_vars

C4_Witness ==
    \E a, b \in Accounts :
        /\ pc[a] = "dead" /\ NumAttempts(log[a]) = 5
        /\ pc[b] = "idle" /\ fired[b] = 1
        /\ mainpc = "join"

\* C5: an account whose initial establishment fails 5 times never gets a
\* worker; every account that connected gets its worker from the Connection
\* main already holds, with no further establishment attempt; and main ends
\* with the no-connection error, no worker started, exactly when every
\* account was excluded.
C5_ExcludedAccounts ==
    /\ [](/\ mainpc = "exit_noconn" <=>
               (mainpc # "connect" /\ \A a \in Accounts : pc[a] = "i_none")
          /\ mainpc \in {"join", "exit_ok", "exit_thread"} =>
               \A a \in Accounts : pc[a] \notin {"i_new", "i_sleep", "i_some"}
          /\ \A a \in Accounts : pc[a] = "i_none" => log[a] = Exhausted)
    /\ [][\A a \in Accounts :
            /\ pc[a] = "i_none" => pc'[a] = "i_none"
            /\ (pc[a] = "i_some" /\ pc'[a] # "i_some") =>
                 (pc'[a] = "run" /\ log'[a] = log[a] /\ res'[a] = res[a])]_vars

C5_Witness ==
    /\ mainpc = "join"
    /\ pc["a1"] = "i_none"
    /\ pc["a2"] = "idle"

\* C6: the detection loop of a Connection starts with high-water mark 0,
\* whatever mark the failed Connection before it had reached.
C6_FreshMarkAfterReconnect ==
    \A a \in Accounts :
        (first[a] /\ pc[a] \in {"scan", "decide"}) => (last[a] = 0 /\ last0[a] = 0)

\* a Connection re-established at the second attempt, about to start its
\* detection loop, while the failed one had reached a mark above 0
C6_Witness ==
    \E a \in Accounts : pc[a] = "run" /\ last[a] > 0 /\ log[a] = <<0, 1, 0>>

\* C7: a failed launch of the primary or the post-command is only logged: the
\* iteration goes on to the high-water-mark update and the push-wait; the
\* loop never ends because of it (it ends only if the launching context
\* itself fails or the push-wait does).
C7_LaunchFailureOnlyLogged ==
    \A a \in Accounts :
        LaunchFailed(launched[a]) =>
            /\ Completed(a) \/ (pc[a] = "logout" /\ cause[a] = "scope" /\ scoped[a] = "err")
            /\ Completed(a) =>
                 /\ scoped[a] = "ok"
                 /\ last[a] = IF seen[a] = {} THEN last0[a] ELSE Greatest(seen[a])

C7_Witness ==
    \E a \in Accounts :
        /\ pc[a] = "idle"
        /\ launched[a] = <<[cmd |-> "primary", ok |-> TRUE], [cmd |-> "post", ok |-> FALSE]>>
        /\ last[a] > last0[a]

\* C8: when the server authenticates but does not offer IDLE, Connection::new
\* fails after the capability query, without selecting a mailbox and without
\* a Connection; the retry loop then sleeps and retries exactly as for any
\* other failure: the delay depends on the attempt number alone.
C8_NoIdleIsRetried ==
    \A a \in Accounts :
        /\ res[a].fault = "noidle" =>
             /\ ~res[a].ok
             /\ pc[a] \in {"i_sleep", "r_sleep", "i_none", "dead"}
             /\ res[a].steps = <<"connect", "login", "capabilities">>
        /\ (res[a].fault # "none" /\ pc[a] \in {"i_sleep", "r_sleep"}) =>
             /\ wait[a] = 2 ^ tries[a]
             /\ tries[a] < 5
             /\ IsPrefix(log[a], Exhausted)

C8_Witness ==
    \E a \in Accounts :
        /\ pc[a] = "r_sleep" /\ res[a].fault = "noidle" /\ tries[a] = 2 /\ wait[a] = 4

\* C9 as stated: a failure of the context that launches the commands is fatal:
\* it is not handled as an error of that account's detection loop and no
\* log-out follows it.
C9_ContextFailureFatal ==
    \A a \in Accounts : scoped[a] = "err" => pc[a] = "panicked"

\* C9 amended: when the scope that launches the commands returns an error,
\* idle_loop returns an error to run, which handles it as it handles any
\* detection error: the worker goes on to the log-out and re-establishment,
\* and the process goes on running.
C9_ContextFailureIsLocal ==
    \A a \in Accounts :
        scoped[a] = "err" =>
            /\ pc[a] = "logout"
            /\ cause[a] = "scope"
            /\ mainpc = "join"

C9_Witness ==
    \E a \in Accounts :
        /\ scoped[a] = "err" /\ pc[a] = "logout"
        /\ launched[a] = <<[cmd |-> "primary", ok |-> FALSE]>>

\* C10 as stated: once a worker was started the process ends only through a
\* worker that failed abnormally.
C10_ExitOnlyOnThreadFailure ==
    mainpc \in {"exit_ok", "exit_thread"} => \E a \in Accounts : pc[a] = "panicked"

\* C10 amended: once a worker was started the process ends only when every
\* worker has ended, Dead or failed abnormally: with the thread error if one
\* failed abnormally, and normally if all of them are Dead.
C10_ExitWhenAllWorkersEnded ==
    /\ mainpc \in {"exit_ok", "exit_thread"} =>
         \A a \in Accounts : pc[a] \in {"i_none", "dead", "panicked"}
    /\ mainpc = "exit_thread" <=>
         (mainpc # "join" /\ \E a \in Accounts : pc[a] = "panicked")
    /\ mainpc = "exit_ok" =>
         (\E a \in Accounts : pc[a] = "dead") /\ \A a \in Accounts : pc[a] # "panicked"

C10_Witness ==
    mainpc = "exit_ok" /\ \A a \in Accounts : pc[a] = "dead"

\* C11 as stated: once a worker has failed abnormally the process is aborted
\* with the thread error, whatever the other workers are doing.
C11_AbortDoesNotWait ==
    (\E a \in Accounts : pc[a] = "panicked") ~> (mainpc = "exit_thread")

\* C11 amended: a worker that failed abnormally ends the process with the
\* thread error only once every other worker has ended too; as long as
\* another worker is Detecting or Reconnecting the process goes on running.
C11_AbortWaitsForWorkers ==
    \A a \in Accounts :
        pc[a] = "panicked" =>
            /\ mainpc \in {"join", "exit_thread"}
            /\ mainpc = "exit_thread" => \A b \in Accounts : Ended(b)
            /\ (\E b \in Accounts : ~Ended(b)) => mainpc = "join"

C11_Witness ==
    \E a, b \in Accounts :
        /\ pc[a] = "panicked"
        /\ pc[b] = "idle" /\ ~first[b] /\ fired[b] = 1
        /\ mainpc = "join"

\* C12: each firing of the Notifier attempts the launch of the primary
\* command exactly once and first; the launch of the post-command is
\* attempted at most once, after it, and only if a post-command is configured
\* and the primary launch succeeded; the push-wait of the iteration is
\* reached only with these attempts made.
C12_LaunchOrder ==
    \A a \in Accounts :
        LET l == launched[a] IN
        /\ Len(l) <= 2
        /\ fired[a] = 0 => l = <<>>
        /\ l # <<>> => (fired[a] = 1 /\ l[1].cmd = "primary")
        /\ Len(l) = 2 =>
             (l[2].cmd = "post" /\ l[1].ok /\ Account[a].on_new_mail_post)
        /\ (Completed(a) /\ fired[a] = 1) =>
             /\ l # <<>>
             /\ Len(l) = 2 <=> (l[1].ok /\ Account[a].on_new_mail_post)

C12_Witness ==
    \E a \in Accounts :
        /\ pc[a] = "idle"
        /\ launched[a] = <<[cmd |-> "primary", ok |-> TRUE], [cmd |-> "post", ok |-> TRUE]>>

AcctState(a) ==
    <<pc[a], tries[a], wait[a], log[a], res[a], last[a], uids[a], mb[a], cause[a],
      first[a], last0[a], seen[a], fired[a], launched[a], scoped[a], logouts[a],
      notified[a]>>

C14_WorkersIsolated ==
    /\ [](\A b \in Accounts :
            pc[b] \in {"run", "scan", "decide", "idle", "logout", "r_new", "r_sleep"} =>
                (mainpc = "join" /\ ENABLED Worker(b)))
    /\ [][\A a, b \in Accounts :
            (a # b /\ mainpc = "join" /\ AcctState(a)' # AcctState(a)) =>
                AcctState(b)' = AcctState(b)]_vars

C14_Witness ==
    \E a, b \in Accounts :
        /\ pc[a] = "dead"
        /\ pc[b] = "idle" /\ last[b] = 2 /\ last0[b] = 1
        /\ mainpc = "join"

\* C15: every error surfaced by the detection loop takes the worker to the
\* log-out of the old Connection and from there to Reconnecting; exactly one
\* log-out is attempted before the first re-establishment attempt, and what
\* follows is the same whether it succeeded or failed.
C15_LogoutOnceThenReconnect ==
    /\ [](\A a \in Accounts :
            /\ cause[a] # "none" => (pc[a] = "logout" /\ logouts[a] = <<>>)
            /\ (pc[a] \in {"r_new", "r_sleep", "dead"} /\ log[a] = <<>>) => Len(logouts[a]) = 1
            /\ logouts[a] # <<>> =>
                 (pc[a] = "r_new" /\ tries[a] = 0 /\ wait[a] = 1 /\ log[a] = <<>>))
    /\ [][\A a \in Accounts :
            (pc[a] = "logout" /\ pc'[a] # "logout") =>
                (pc'[a] = "r_new" /\ Len(logouts'[a]) = 1)]_vars

C15_Witness ==
    \E a \in Accounts : pc[a] = "r_new" /\ logouts[a] = <<FALSE>>

\* C16: a failed select, search or push-wait ends the detection loop at once
\* and nothing is retried there: after a select/search failure no further
\* mailbox is examined, the Notifier is not fired in that iteration and no
\* push-wait is entered; the worker's next step is the Supervisor's.
C16_IoFailureEndsLoop ==
    /\ [](\A a \in Accounts :
            /\ cause[a] \in {"examine", "search", "idle"} => pc[a] = "logout"
            /\ cause[a] \in {"examine", "search"} =>
                 (fired[a] = 0 /\ launched[a] = <<>> /\ seen[a] = {}))
    /\ [][\A a \in Accounts :
            /\ (cause[a] = "none" /\ cause'[a] \in {"examine", "search"}) =>
                 /\ mb'[a] = mb[a] /\ uids'[a] = uids[a]
                 /\ fired'[a] = fired[a] /\ launched'[a] = launched[a]
            /\ (cause[a] \in {"examine", "search", "idle"} /\ AcctState(a)' # AcctState(a)) =>
                 (pc'[a] = "r_new" /\ Len(logouts'[a]) = 1
                  /\ fired'[a] = 0 /\ launched'[a] = <<>>)]_vars

C16_Witness ==
    \E a \in Accounts :
        /\ pc[a] = "logout" /\ cause[a] = "search"
        /\ mb[a] = 2 /\ uids[a] = {1, 2} /\ first[a] /\ fired[a] = 0

\* C17: while the initial establishment of some configured account is still
\* going on, no worker exists: no account has started detection.
C17_NoDetectionBeforeAllEstablished ==
    \A a, b \in Accounts :
        pc[b] \in {"i_new", "i_sleep"} =>
            /\ pc[a] \in {"i_new", "i_sleep", "i_some", "i_none"}
            /\ mainpc = "connect"
            /\ fired[a] = 0 /\ launched[a] = <<>> /\ seen[a] = {} /\ uids[a] = {}

C17_Witness ==
    /\ pc["a1"] = "i_some" /\ log["a1"] = <<0>>
    /\ pc["a2"] = "i_sleep" /\ tries["a2"] = 4

\* C18: inside the detection loop the high-water mark is the largest
\* identifier of the events the Notifier was fired for on this Connection
\* (0 if none); it never decreases there and a step that fires nothing
\* leaves it alone.
C18_MarkIsLargestNotified ==
    /\ [](\A a \in Accounts :
            pc[a] \in {"scan", "decide", "idle"} => last[a] = notified[a])
    /\ [][\A a \in Accounts :
            (pc[a] \in {"scan", "decide", "idle"} /\ pc'[a] \in {"scan", "decide", "idle"}) =>
                /\ last'[a] >= last[a]
                /\ fired'[a] <= fired[a] => last'[a] = last[a]]_vars

C18_Witness ==
    \E a \in Accounts :
        /\ pc[a] = "idle" /\ last0[a] = 2 /\ seen[a] = {1} /\ fired[a] = 0
        /\ last[a] = 2 /\ notified[a] = 2

\* C19: the first iteration of a detection loop that reaches its decision
\* fires the Notifier, whatever the searches returned.
C19_FirstIterationFires ==
    \A a \in Accounts :
        (first[a] /\ pc[a] \in {"scan", "decide", "idle", "logout", "panicked"}) =>
            /\ last0[a] = 0
            /\ Decided(a) => fired[a] = 1
            /\ pc[a] = "decide" => AllGreater(uids[a], last[a])

C19_Witness ==
    \E a, b \in Accounts :
        /\ pc[a] = "idle" /\ first[a] /\ seen[a] = {} /\ fired[a] = 1
        /\ pc[b] = "idle" /\ first[b] /\ seen[b] = {1, 2} /\ fired[b] = 1

====
